---- MODULE Spec2Model ----
(***************************************************************************)
(* TimerThread: one worker thread firing one-shot and periodic timers,     *)
(* with the cancellation (clearTimer / clear) and shutdown handshakes.     *)
(*                                                                         *)
(* Threads: the worker "w", the caller threads Clients, and "h", the code  *)
(* of the handler that is in flight (it runs on the worker with the lock   *)
(* released and may call back into the engine).                            *)
(*                                                                         *)
(* A step is one stretch of code between two points where a thread can be  *)
(* interleaved with others: acquiring sync, releasing it, blocking on a    *)
(* condition variable, calling notify_all.  The mutex is explicit          *)
(* (lockOwner), so states in which a thread holds it are visible.          *)
(***************************************************************************)
EXTENDS Integers, Sequences, FiniteSets, TLC

\* ---- bounds of the model ------------------------------------------------
MaxTime    == 2      \* the clock runs 0..MaxTime
MaxTimers  == 2      \* addTimer is called at most MaxTimers times
MaxDelay   == 1      \* msDelay  \in 0..MaxDelay
MaxPeriod  == 1      \* msPeriod \in 0..MaxPeriod

\* ---- program constants --------------------------------------------------
no_timer == 0

W        == "w"
H        == "h"
Clients  == {"c1", "c2"}
Callers  == Clients \cup {H}
NoThread == "none"

VARIABLES
    now,        \* Clock::now()
    nextId,     \* TimerThread::nextId
    active,     \* TimerThread::active : id -> Timer
    queue,      \* TimerThread::queue  : ids ordered by Timer::next
    done,       \* TimerThread::done
    lockOwner,  \* the thread holding TimerThread::sync, or NoThread
    wpc,        \* where the worker thread is
    cur,        \* the Timer the worker holds a reference to (timer)
    deadline,   \* the abs_time of the worker's wait_until
    wnotified,  \* wakeUp was notified while the worker is blocked on it
    pc,         \* where each caller is
    arg,        \* the id a caller's clearTimer / destroy_impl works on
    ntf,        \* a caller's needNotify (addTimer)
    signalled,  \* callers whose Timer::waitCond wait has been notified
    crashed,    \* the process has aborted
    issued,     \* history: the ids addTimer assigned, in lock order
    clearedTrue,\* history: the ids for which a clearTimer returned true
    atCall,     \* history: the handler of arg was in flight when clearTimer was called
    lastTarget, \* history: Timer::next of the last invocation
    addedDuring \* history: the callers inside clear since whose lock an addTimer ran

vars == <<now, nextId, active, queue, done, lockOwner, wpc, cur, deadline,
          wnotified, pc, arg, ntf, signalled, crashed, issued, clearedTrue,
          atCall, lastTarget, addedDuring>>

\* ---- Timer and the two containers ---------------------------------------

\* Timer::Timer(id, next, period, handler).  first and count are history:
\* the first target time and the number of invocations started.
Timer(next, period) ==
    [next |-> next, period |-> period, running |-> FALSE, waitCond |-> FALSE,
     first |-> next, count |-> 0]

\* (mutation of NextActiveComparator: the comparison the other way round)
ComparatorReversed(a, b) == a.next > b.next

\* NextActiveComparator::operator()
NextActiveComparator(a, b) == a.next < b.next

\* std::multiset::emplace: the new element goes after every element that
\* does not compare greater than it (upper bound).
QueueEmplace(q, id, act) ==
    LET k == Cardinality({p \in 1..Len(q) :
                 ~NextActiveComparator(act[id], act[q[p]])})
    IN  SubSeq(q, 1, k) \o <<id>> \o SubSeq(q, k + 1, Len(q))

\* (mutation of QueueEraseKey: the queue left as it is)
QueueEraseNone(q, id, act) == q

\* std::multiset::erase(key): every element equivalent to the key goes.
QueueEraseKey(q, id, act) ==
    SelectSeq(q, LAMBDA j : NextActiveComparator(act[j], act[id])
                            \/ NextActiveComparator(act[id], act[j]))

\* std::unordered_map::erase
MapErase(act, id) == [j \in DOMAIN act \ {id} |-> act[j]]

\* ConditionVar::notify_all on wakeUp: it reaches the worker only when the
\* worker is blocked in wait / wait_until.
NotifyWakeUp == wnotified \/ wpc \in {"idle_wait", "timed_wait"}

Joinable == wpc # "none"

DtorBegun == \E c \in Clients : pc[c] \in {"d_notify", "d_join", "destroyed"}

\* A caller may start a call: a client while the engine is alive, the
\* handler code while it is in flight.  The clients are interchangeable
\* and keep nothing between calls, so a call that starts while no other
\* client is inside the engine is taken to be c1's.
MayCall(t) ==
    /\ pc[t] = "idle"
    /\ IF t = H THEN wpc = "handler" ELSE ~DtorBegun
    /\ t = "c2" => pc["c1"] # "idle"

Init ==
    /\ now = 0
    /\ nextId = no_timer + 1
    /\ active = << >>
    /\ queue = << >>
    /\ done = FALSE
    /\ lockOwner = NoThread
    /\ wpc = "none"
    /\ cur = no_timer
    /\ deadline = 0
    /\ wnotified = FALSE
    /\ pc = [t \in Callers |-> "idle"]
    /\ arg = [t \in Callers |-> no_timer]
    /\ ntf = [t \in Callers |-> FALSE]
    /\ signalled = {}
    /\ crashed = FALSE
    /\ issued = << >>
    /\ clearedTrue = {}
    /\ atCall = [t \in Callers |-> FALSE]
    /\ lastTarget = 0
    /\ addedDuring = {}

\* ---- the clock ----------------------------------------------------------
Tick ==
    /\ ~crashed
    /\ UNCHANGED addedDuring
    /\ now < MaxTime
    /\ now' = now + 1
    /\ UNCHANGED <<nextId, active, queue, done, lockOwner, wpc, cur, deadline,
                   wnotified, pc, arg, ntf, signalled, crashed, issued,
                   clearedTrue, atCall, lastTarget>>


\* ---- timerThreadWorker --------------------------------------------------

\* The thread created by addTimer takes sync (ScopedLock lock(sync)).
WorkerStart ==
    /\ ~crashed
    /\ UNCHANGED addedDuring
    /\ wpc = "start"
    /\ lockOwner = NoThread
    /\ wpc' = "loop"
    /\ lockOwner' = W
    /\ UNCHANGED <<now, nextId, active, queue, done, cur, deadline, wnotified,
                   pc, arg, ntf, signalled, crashed, issued, clearedTrue,
                   atCall, lastTarget>>

\* while (!done)
LoopTest == ~done

\* if (now >= timer.next)
IsDue(t) == now >= t.next

\* (mutation of UnlockedForHandler: the handler called with sync held)
LockKeptForHandler == W

\* lock.unlock() before timer.handler(): nobody holds sync
UnlockedForHandler == NoThread

\* One evaluation of the loop with sync held, up to the point where the
\* worker releases it: the exit, one of the two waits, or the handler call.
WorkerLoop ==
    /\ ~crashed
    /\ UNCHANGED addedDuring
    /\ wpc = "loop"
    /\ lockOwner = W
    /\ IF ~LoopTest
         THEN /\ wpc' = "exited"
              /\ lockOwner' = NoThread
              /\ UNCHANGED <<active, queue, cur, deadline, wnotified,
                             lastTarget>>
       ELSE IF queue = << >>
         THEN /\ wpc' = "idle_wait"
              /\ lockOwner' = NoThread
              /\ wnotified' = FALSE
              /\ UNCHANGED <<active, queue, cur, deadline, lastTarget>>
       ELSE IF IsDue(active[Head(queue)])
         THEN /\ queue' = Tail(queue)
              /\ active' = [active EXCEPT ![Head(queue)].running = TRUE,
                                          ![Head(queue)].count = @ + 1]
              /\ cur' = Head(queue)
              /\ wpc' = "handler"
              /\ lockOwner' = UnlockedForHandler
              /\ lastTarget' = active[Head(queue)].next
              /\ UNCHANGED <<deadline, wnotified>>
         ELSE /\ wpc' = "timed_wait"
              /\ lockOwner' = NoThread
              /\ deadline' = active[Head(queue)].next
              /\ wnotified' = FALSE
              /\ UNCHANGED <<active, queue, cur, lastTarget>>
    /\ UNCHANGED <<now, nextId, done, pc, arg, ntf, signalled, crashed, issued,
                   clearedTrue, atCall>>

\* wakeUp.wait(lock, pred): the predicate of the wait
IdlePred == done \/ queue # << >>

\* The worker leaves wakeUp.wait(lock, pred) when it has been notified and
\* the predicate holds; a notification with the predicate false puts it back.
WorkerWakeIdle ==
    /\ ~crashed
    /\ UNCHANGED addedDuring
    /\ wpc = "idle_wait"
    /\ wnotified
    /\ lockOwner = NoThread
    /\ wnotified' = FALSE
    /\ IF IdlePred
         THEN wpc' = "loop" /\ lockOwner' = W
         ELSE UNCHANGED <<wpc, lockOwner>>
    /\ UNCHANGED <<now, nextId, active, queue, done, cur, deadline, pc, arg,
                   ntf, signalled, crashed, issued, clearedTrue, atCall,
                   lastTarget>>

\* wakeUp.wait_until(lock, timer.next) returns on a notification or when
\* the deadline has passed.
WorkerWakeTimed ==
    /\ ~crashed
    /\ UNCHANGED addedDuring
    /\ wpc = "timed_wait"
    /\ wnotified \/ now >= deadline
    /\ lockOwner = NoThread
    /\ wnotified' = FALSE
    /\ wpc' = "loop"
    /\ lockOwner' = W
    /\ deadline' = 0
    /\ UNCHANGED <<now, nextId, active, queue, done, cur, pc, arg,
                   ntf, signalled, crashed, issued, clearedTrue, atCall,
                   lastTarget>>

\* A condition variable may also wake spuriously.
WorkerWakeSpurious ==
    /\ ~crashed
    /\ UNCHANGED addedDuring
    /\ \/ wpc = "idle_wait" /\ IdlePred
       \/ wpc = "timed_wait"
    /\ ~wnotified
    /\ lockOwner = NoThread
    /\ wpc' = "loop"
    /\ lockOwner' = W
    /\ deadline' = 0
    /\ UNCHANGED <<now, nextId, active, queue, done, cur, wnotified,
                   pc, arg, ntf, signalled, crashed, issued, clearedTrue,
                   atCall, lastTarget>>

\* (mutation of IsPeriodic: >= for >)
PeriodicOrZero(t) == t.period >= 0

\* if (timer.period.count() > 0)
IsPeriodic(t) == t.period > 0

\* (mutation of Reschedule: the next target counted from the current time)
RescheduleFromNow(t) == [t EXCEPT !.running = FALSE, !.next = now + t.period]

\* (mutation of Reschedule: running not reset)
RescheduleKeepsRunning(t) == [t EXCEPT !.next = t.next + t.period]

\* timer.running = false; timer.next = timer.next + timer.period;
Reschedule(t) == [t EXCEPT !.running = FALSE, !.next = t.next + t.period]

\* The callers blocked in timer.waitCond->wait(lock) for Timer id
WaitersOf(id) ==
    {t \in Callers : pc[t] \in {"ct_wait", "clear_wait"} /\ arg[t] = id}

\* The handler has returned: lock.lock() and the bookkeeping after it.
\* When the Registry entry was erased during the callback, timer is a
\* dangling reference: the reads of the freed Timer either find it as the
\* canceller left it (running false, the id no longer in active, so the
\* erase finds nothing) or the process aborts in notify_all.
HandlerReturn ==
    /\ ~crashed
    /\ UNCHANGED addedDuring
    /\ wpc = "handler"
    /\ pc[H] = "idle"
    /\ lockOwner = NoThread
    /\ IF cur \in DOMAIN active
         THEN /\ wpc' = "loop"
              /\ lockOwner' = W
              /\ cur' = no_timer
              /\ crashed' = crashed
              /\ IF active[cur].running
                   THEN /\ IF IsPeriodic(active[cur])
                             THEN /\ active' = [active EXCEPT ![cur] = Reschedule(@)]
                                  /\ queue' = QueueEmplace(queue, cur, active')
                             ELSE /\ active' = MapErase(active, cur)
                                  /\ queue' = queue
                        /\ signalled' = signalled
                   ELSE /\ signalled' = signalled \cup WaitersOf(cur)
                        /\ active' = MapErase(active, cur)
                        /\ queue' = queue
         ELSE /\ \/ /\ crashed' = TRUE
                    /\ UNCHANGED <<wpc, lockOwner, cur>>
                 \/ /\ wpc' = "loop"
                    /\ lockOwner' = W
                    /\ cur' = no_timer
                    /\ crashed' = crashed
              /\ UNCHANGED <<active, queue, signalled>>
    /\ UNCHANGED <<now, nextId, done, deadline, wnotified, pc, arg, ntf,
                   issued, clearedTrue, atCall, lastTarget>>


\* ---- addTimer -----------------------------------------------------------

\* The places of a caller that is inside clear
InClear == {"clear_loop", "clear_wait", "clear_notify", "clear_threw"}

\* (mutation of NextIdAfter: the increment left out)
NextIdSame(n) == n

\* auto id = nextId++
NextIdAfter(n) == n + 1

\* (mutation of NeedNotify: the notification left out)
NeedNotifyNever(q, id) == FALSE

\* bool needNotify = (place == queue.begin())
NeedNotify(q, id) == Head(q) = id

\* addTimer with sync held: start the worker on the first call, assign the
\* id, emplace into active and queue, compute needNotify, unlock.
AddTimerLocked(t, msDelay, msPeriod) ==
    /\ ~crashed
    /\ MayCall(t)
    /\ lockOwner = NoThread
    /\ nextId <= MaxTimers
    /\ wpc' = IF Joinable THEN wpc ELSE "start"
    /\ nextId' = NextIdAfter(nextId)
    /\ active' = active @@ (nextId :> Timer(now + msDelay, msPeriod))
    /\ queue' = QueueEmplace(queue, nextId, active')
    /\ ntf' = [ntf EXCEPT ![t] = NeedNotify(queue', nextId)]
    /\ arg' = [arg EXCEPT ![t] = nextId]
    /\ pc' = [pc EXCEPT ![t] = "add_notify"]
    /\ issued' = Append(issued, nextId)
    /\ addedDuring' = {c \in Callers : pc[c] \in InClear}
    /\ UNCHANGED <<now, done, lockOwner, cur, deadline, wnotified, signalled,
                   crashed, clearedTrue, atCall, lastTarget>>

\* if (needNotify) wakeUp.notify_all(); return id;
AddTimerReturn(t) ==
    /\ ~crashed
    /\ UNCHANGED addedDuring
    /\ pc[t] = "add_notify"
    /\ wnotified' = IF ntf[t] THEN NotifyWakeUp ELSE wnotified
    /\ pc' = [pc EXCEPT ![t] = "idle"]
    /\ arg' = [arg EXCEPT ![t] = no_timer]
    /\ ntf' = [ntf EXCEPT ![t] = FALSE]
    /\ UNCHANGED <<now, nextId, active, queue, done, lockOwner, wpc, cur,
                   deadline, signalled, crashed, issued, clearedTrue,
                   atCall, lastTarget>>

\* ---- destroy_impl -------------------------------------------------------

\* i == active.end()
NotFound(id) == id \notin DOMAIN active

\* (mutation of FlagForDeletion: running left set)
FlagKeepsRunning(t) == [t EXCEPT !.waitCond = TRUE]

\* timer.running = false; timer.waitCond.reset(new ConditionVar);
FlagForDeletion(t) == [t EXCEPT !.running = FALSE, !.waitCond = TRUE]

\* (mutation of DestroyOutcome: the test against active.end() answers true)
DestroyOutcomeNoEndCheck(id) ==
    IF id \notin DOMAIN active THEN "ret_true"
    ELSE IF active[id].running THEN "ct_wait"
    ELSE "ct_notify"

\* Where destroy_impl(lock, active.find(id), true) leaves clearTimer: the
\* return of false, the wait for the callback in progress, or the erase
\* followed by the unlock and the notify_all.
DestroyOutcome(id) ==
    IF NotFound(id) THEN "ret_false"
    ELSE IF active[id].running THEN "ct_wait"
    ELSE "ct_notify"

\* The handler of Timer id is executing
InFlight(id) == wpc = "handler" /\ cur = id

\* ---- clearTimer ---------------------------------------------------------

\* clearTimer(id) from the lock to the first point where it gives sync up:
\* the return of false, the wait on the Timer's waitCond, or the unlock
\* before the notify_all.
ClearTimerLocked(t, id) ==
    /\ ~crashed
    /\ UNCHANGED addedDuring
    /\ MayCall(t)
    /\ lockOwner = NoThread
    /\ atCall' = [atCall EXCEPT ![t] = InFlight(id)]
    /\ arg' = [arg EXCEPT ![t] = id]
    /\ pc' = [pc EXCEPT ![t] = DestroyOutcome(id)]
    /\ IF pc'[t] = "ct_wait"
         THEN /\ active' = [active EXCEPT ![id] = FlagForDeletion(@)]
              /\ queue' = queue
       ELSE IF pc'[t] = "ct_notify"
         THEN /\ queue' = QueueEraseKey(queue, id, active)
              /\ active' = MapErase(active, id)
         ELSE UNCHANGED <<active, queue>>
    /\ UNCHANGED <<now, nextId, done, lockOwner, wpc, cur, deadline, wnotified,
                   ntf, signalled, crashed, issued, clearedTrue, lastTarget>>

\* active.erase(i) destroys the Timer and with it its waitCond.  When a
\* caller is still blocked on that condition variable the destructor
\* either completes (the step above) or blocks for as long as the waiter is
\* there, with sync held.
ClearTimerHang(t, id) ==
    /\ ~crashed
    /\ UNCHANGED addedDuring
    /\ MayCall(t)
    /\ lockOwner = NoThread
    /\ DestroyOutcome(id) = "ct_notify"
    /\ WaitersOf(id) # {}
    /\ queue' = QueueEraseKey(queue, id, active)
    /\ arg' = [arg EXCEPT ![t] = id]
    /\ pc' = [pc EXCEPT ![t] = "hung"]
    /\ lockOwner' = t
    /\ UNCHANGED <<now, nextId, active, done, wpc, cur, deadline, wnotified,
                   ntf, signalled, crashed, issued, clearedTrue, atCall,
                   lastTarget>>

\* wakeUp.notify_all() after the unlock, then return true
ClearTimerNotify(t) ==
    /\ ~crashed
    /\ UNCHANGED addedDuring
    /\ pc[t] = "ct_notify"
    /\ wnotified' = NotifyWakeUp
    /\ pc' = [pc EXCEPT ![t] = "ret_true"]
    /\ UNCHANGED <<now, nextId, active, queue, done, lockOwner, wpc, cur,
                   deadline, arg, ntf, signalled, crashed, issued, clearedTrue,
                   atCall, lastTarget>>

\* timer.waitCond->wait(lock) returns (notified by the worker, or woken
\* spuriously: the wait has no predicate), destroy_impl returns true and
\* the ScopedLock of clearTimer releases sync.
ClearTimerWake(t) ==
    /\ ~crashed
    /\ UNCHANGED addedDuring
    /\ pc[t] = "ct_wait"
    /\ lockOwner = NoThread
    /\ t \in signalled
    /\ signalled' = signalled \ {t}
    /\ pc' = [pc EXCEPT ![t] = "ret_true"]
    /\ UNCHANGED <<now, nextId, active, queue, done, lockOwner, wpc, cur,
                   deadline, wnotified, arg, ntf, crashed, issued, clearedTrue,
                   atCall, lastTarget>>

ClearTimerWakeSpurious(t) ==
    /\ ~crashed
    /\ UNCHANGED addedDuring
    /\ pc[t] = "ct_wait"
    /\ lockOwner = NoThread
    /\ t \notin signalled
    /\ pc' = [pc EXCEPT ![t] = "ret_true"]
    /\ UNCHANGED <<now, nextId, active, queue, done, lockOwner, wpc, cur,
                   deadline, wnotified, arg, ntf, signalled, crashed, issued,
                   clearedTrue, atCall, lastTarget>>

\* clearTimer hands its result to the caller
ClearTimerReturn(t) ==
    /\ ~crashed
    /\ UNCHANGED addedDuring
    /\ pc[t] \in {"ret_true", "ret_false"}
    /\ clearedTrue' = IF pc[t] = "ret_true" THEN clearedTrue \cup {arg[t]}
                                             ELSE clearedTrue
    /\ pc' = [pc EXCEPT ![t] = "idle"]
    /\ arg' = [arg EXCEPT ![t] = no_timer]
    /\ atCall' = [atCall EXCEPT ![t] = FALSE]
    /\ UNCHANGED <<now, nextId, active, queue, done, lockOwner, wpc, cur,
                   deadline, wnotified, ntf, signalled, crashed, issued,
                   lastTarget>>


\* ---- clear --------------------------------------------------------------

\* ScopedLock lock(sync)
ClearLocked(t) ==
    /\ ~crashed
    /\ MayCall(t)
    /\ lockOwner = NoThread
    /\ lockOwner' = t
    /\ pc' = [pc EXCEPT ![t] = "clear_loop"]
    /\ addedDuring' = addedDuring \ {t}
    /\ UNCHANGED <<now, nextId, active, queue, done, wpc, cur, deadline,
                   wnotified, arg, ntf, signalled, crashed, issued, clearedTrue,
                   atCall, lastTarget>>

\* lock.owns_lock()
OwnsLock(t) == lockOwner = t

\* The notify argument clear passes to destroy_impl: queue.size() == 1
ClearNotifyArg == Len(queue) = 1

\* destroy_impl(lock, i, notify) as clear calls it, for the entry i (which
\* is in active).  When the caller does not own sync, the wait is entered
\* without releasing anything and lock.unlock() throws std::system_error
\* out of clear.
ClearDestroy(t, i, notify) ==
    IF active[i].running
      THEN /\ active' = [active EXCEPT ![i] = FlagForDeletion(@)]
           /\ queue' = queue
           /\ arg' = [arg EXCEPT ![t] = i]
           /\ pc' = [pc EXCEPT ![t] = "clear_wait"]
           /\ lockOwner' = IF OwnsLock(t) THEN NoThread ELSE lockOwner
      ELSE /\ queue' = QueueEraseKey(queue, i, active)
           /\ active' = MapErase(active, i)
           /\ arg' = arg
           /\ IF notify
                THEN /\ pc' = [pc EXCEPT ![t] =
                                 IF OwnsLock(t) THEN "clear_notify" ELSE "clear_threw"]
                     /\ lockOwner' = IF OwnsLock(t) THEN NoThread ELSE lockOwner
                ELSE UNCHANGED <<pc, lockOwner>>

\* One pass of while (!active.empty()) destroy_impl(lock, active.begin(),
\* queue.size() == 1).  active.begin() is whichever entry the hash table
\* holds first.  After a destroy_impl that unlocked, the loop goes on
\* without sync: assert(lock.owns_lock()) aborts the process where asserts
\* are compiled in, and the body runs unlocked where they are not.
ClearLoop(t) ==
    /\ ~crashed
    /\ pc[t] = "clear_loop"
    /\ IF active = << >>
         THEN /\ pc' = [pc EXCEPT ![t] = "idle"]
              /\ lockOwner' = IF OwnsLock(t) THEN NoThread ELSE lockOwner
              /\ UNCHANGED <<active, queue, arg, crashed>>
         ELSE \/ /\ ~OwnsLock(t)
                 /\ crashed' = TRUE
                 /\ UNCHANGED <<active, queue, arg, pc, lockOwner>>
              \/ /\ crashed' = crashed
                 /\ \E i \in DOMAIN active : ClearDestroy(t, i, ClearNotifyArg)
    /\ addedDuring' = IF pc'[t] \in InClear THEN addedDuring
                                              ELSE addedDuring \ {t}
    /\ UNCHANGED <<now, nextId, done, wpc, cur, deadline, wnotified, ntf,
                   signalled, issued, clearedTrue, atCall, lastTarget>>

\* The erase of clear's destroy_impl blocked in the destructor of a
\* waitCond another caller is blocked on.
ClearHang(t) ==
    /\ ~crashed
    /\ UNCHANGED addedDuring
    /\ pc[t] = "clear_loop"
    /\ \E i \in DOMAIN active :
          /\ ~active[i].running
          /\ WaitersOf(i) # {}
          /\ queue' = QueueEraseKey(queue, i, active)
          /\ arg' = [arg EXCEPT ![t] = i]
    /\ pc' = [pc EXCEPT ![t] = "hung"]
    /\ UNCHANGED <<now, nextId, active, done, lockOwner, wpc, cur, deadline,
                   wnotified, ntf, signalled, crashed, issued, clearedTrue,
                   atCall, lastTarget>>

\* wakeUp.notify_all() in destroy_impl, after lock.unlock(); destroy_impl
\* returns to the loop of clear with sync not held.
ClearNotify(t) ==
    /\ ~crashed
    /\ UNCHANGED addedDuring
    /\ pc[t] = "clear_notify"
    /\ wnotified' = NotifyWakeUp
    /\ pc' = [pc EXCEPT ![t] = "clear_loop"]
    /\ UNCHANGED <<now, nextId, active, queue, done, lockOwner, wpc, cur,
                   deadline, arg, ntf, signalled, crashed, issued, clearedTrue,
                   atCall, lastTarget>>

\* timer.waitCond->wait(lock) returns inside clear: sync is held again.
ClearWake(t) ==
    /\ ~crashed
    /\ UNCHANGED addedDuring
    /\ pc[t] = "clear_wait"
    /\ lockOwner = NoThread
    /\ t \in signalled
    /\ signalled' = signalled \ {t}
    /\ lockOwner' = t
    /\ pc' = [pc EXCEPT ![t] = "clear_loop"]
    /\ arg' = [arg EXCEPT ![t] = no_timer]
    /\ UNCHANGED <<now, nextId, active, queue, done, wpc, cur, deadline,
                   wnotified, ntf, crashed, issued, clearedTrue, atCall,
                   lastTarget>>

ClearWakeSpurious(t) ==
    /\ ~crashed
    /\ UNCHANGED addedDuring
    /\ pc[t] = "clear_wait"
    /\ lockOwner = NoThread
    /\ t \notin signalled
    /\ lockOwner' = t
    /\ pc' = [pc EXCEPT ![t] = "clear_loop"]
    /\ arg' = [arg EXCEPT ![t] = no_timer]
    /\ UNCHANGED <<now, nextId, active, queue, done, wpc, cur, deadline,
                   wnotified, ntf, signalled, crashed, issued, clearedTrue,
                   atCall, lastTarget>>

\* The std::system_error leaves clear
ClearUnwind(t) ==
    /\ ~crashed
    /\ addedDuring' = addedDuring \ {t}
    /\ pc[t] = "clear_threw"
    /\ pc' = [pc EXCEPT ![t] = "idle"]
    /\ UNCHANGED <<now, nextId, active, queue, done, lockOwner, wpc, cur,
                   deadline, wnotified, arg, ntf, signalled, crashed, issued,
                   clearedTrue, atCall, lastTarget>>

\* ---- ~TimerThread -------------------------------------------------------

\* The destructor runs when no other caller is inside the engine.
DtorLocked(t) ==
    /\ ~crashed
    /\ UNCHANGED addedDuring
    /\ MayCall(t)
    /\ \A c \in Clients : pc[c] = "idle"
    /\ lockOwner = NoThread
    /\ IF Joinable
         THEN /\ done' = TRUE
              /\ pc' = [pc EXCEPT ![t] = "d_notify"]
         ELSE /\ done' = done
              /\ pc' = [pc EXCEPT ![t] = "destroyed"]
    /\ UNCHANGED <<now, nextId, active, queue, lockOwner, wpc, cur, deadline,
                   wnotified, arg, ntf, signalled, crashed, issued, clearedTrue,
                   atCall, lastTarget>>

\* wakeUp.notify_all()
DtorNotify(t) ==
    /\ ~crashed
    /\ UNCHANGED addedDuring
    /\ pc[t] = "d_notify"
    /\ wnotified' = NotifyWakeUp
    /\ pc' = [pc EXCEPT ![t] = "d_join"]
    /\ UNCHANGED <<now, nextId, active, queue, done, lockOwner, wpc, cur,
                   deadline, arg, ntf, signalled, crashed, issued, clearedTrue,
                   atCall, lastTarget>>

\* (mutation of WorkerExited: the join left out)
JoinSkipped == TRUE

\* worker.join() returns when timerThreadWorker has returned
WorkerExited == wpc = "exited"

DtorJoin(t) ==
    /\ ~crashed
    /\ UNCHANGED addedDuring
    /\ pc[t] = "d_join"
    /\ WorkerExited
    /\ pc' = [pc EXCEPT ![t] = "destroyed"]
    /\ UNCHANGED <<now, nextId, active, queue, done, lockOwner, wpc, cur,
                   deadline, wnotified, arg, ntf, signalled, crashed, issued,
                   clearedTrue, atCall, lastTarget>>

\* ---- the system ---------------------------------------------------------

Ids == 1..MaxTimers

\* The steps of the worker and of the clock
WorkerNext ==
    \/ Tick
    \/ WorkerStart
    \/ WorkerLoop
    \/ WorkerWakeIdle
    \/ WorkerWakeTimed
    \/ HandlerReturn

\* The steps that start a call of caller t
CallerBegin(t) ==
    \/ \E d \in 0..MaxDelay, p \in 0..MaxPeriod : AddTimerLocked(t, d, p)
    \/ \E id \in Ids : ClearTimerLocked(t, id)
    \/ \E id \in Ids : ClearTimerHang(t, id)
    \/ ClearLocked(t)
    \/ DtorLocked(t)

\* The steps that carry on a call caller t is in
CallerProgress(t) ==
    \/ AddTimerReturn(t)
    \/ ClearTimerNotify(t)
    \/ ClearTimerWake(t)
    \/ ClearTimerReturn(t)
    \/ ClearLoop(t)
    \/ ClearHang(t)
    \/ ClearNotify(t)
    \/ ClearWake(t)
    \/ ClearUnwind(t)
    \/ DtorNotify(t)
    \/ DtorJoin(t)

\* The wake-ups without a notification that a wait may make
Spurious ==
    \/ WorkerWakeSpurious
    \/ \E t \in Clients : ClearTimerWakeSpurious(t)
    \/ \E t \in Clients : ClearWakeSpurious(t)

\* The engine with condition variables that wake only when notified
NextNotified ==
    \/ WorkerNext
    \/ \E t \in Clients : CallerBegin(t)
    \/ \E t \in Clients : CallerProgress(t)

\* The engine used by the client threads.  A call a handler makes is, for
\* the engine, a call from another thread made while that handler is in
\* flight, so the calls of handlers are among these behaviours.
Next ==
    \/ NextNotified
    \/ Spurious

Spec == Init /\ [][Next]_vars

SpecNotified == Init /\ [][NextNotified]_vars

\* Time advances, the worker and the callers inside the engine are
\* scheduled (also when they need sync, which other threads keep taking and
\* releasing), and handlers return.  Nothing obliges a client to start a
\* call, and nothing obliges a wait to wake spuriously.
Fairness ==
    /\ WF_vars(Tick)
    /\ SF_vars(WorkerStart)
    /\ WF_vars(WorkerLoop)
    /\ SF_vars(WorkerWakeIdle)
    /\ SF_vars(WorkerWakeTimed)
    /\ SF_vars(HandlerReturn)
    /\ \A t \in Clients : SF_vars(CallerProgress(t))

FairSpec == Init /\ [][Next]_vars /\ Fairness

FairSpecNotified == Init /\ [][NextNotified]_vars /\ Fairness

\* The calls the handler in flight makes into the engine: addTimer, and
\* clearTimer on a timer other than its own
NestedBegin ==
    \/ \E d \in 0..MaxDelay, p \in 0..MaxPeriod : AddTimerLocked(H, d, p)
    \/ \E id \in Ids \ {cur} : ClearTimerLocked(H, id)

NestedProgress ==
    \/ AddTimerReturn(H)
    \/ ClearTimerNotify(H)
    \/ ClearTimerReturn(H)

\* What one client thread does next to a handler that calls back: it adds
\* and cancels timers and destroys the engine.
ClientBegin(t) ==
    \/ \E d \in 0..MaxDelay, p \in 0..MaxPeriod : AddTimerLocked(t, d, p)
    \/ \E id \in Ids : ClearTimerLocked(t, id)
    \/ DtorLocked(t)

ClientProgress(t) ==
    \/ AddTimerReturn(t)
    \/ ClearTimerNotify(t)
    \/ ClearTimerWake(t)
    \/ ClearTimerReturn(t)
    \/ DtorNotify(t)
    \/ DtorJoin(t)

\* The engine with a handler that calls back into it
NextNested ==
    \/ WorkerNext
    \/ NestedBegin
    \/ NestedProgress
    \/ ClientBegin("c1")
    \/ ClientProgress("c1")

SpecNested == Init /\ [][NextNested]_vars

\* The handler's own calls are scheduled like those of any thread.
FairSpecNested ==
    Init /\ [][NextNested]_vars /\ Fairness /\ SF_vars(NestedProgress)


\* ---- the claims ---------------------------------------------------------

\* The worker takes a Timer off the queue and calls its handler
HandlerStarts == wpc # "handler" /\ wpc' = "handler"

\* C1: once a clearTimer(id) has returned true, the handler of id never
\* starts executing again, whether the timer was queued, due or in flight
\* when it was cancelled, one-shot or periodic.
C1_NoInvocationAfterClear ==
    [][HandlerStarts => cur' \notin clearedTrue]_vars

\* C1 witness: a clearTimer that found the periodic timer's handler in
\* flight has returned true, that handler has returned and the worker has
\* gone on to invoke another handler.
C1_Witness ==
    \E t \in Clients :
        /\ pc[t] = "ret_true"
        /\ atCall[t]
        /\ wpc = "handler"
        /\ cur # arg[t]

\* C2: a clearTimer(id) called while the handler of id is executing has not
\* returned as long as that invocation is executing.
C2_ClearTimerWaitsForHandler ==
    \A t \in Clients :
        (pc[t] = "ret_true" /\ atCall[t]) => ~InFlight(arg[t])

\* C3: the destructor has not returned while a handler is executing; when
\* it has returned, the worker thread is not running at all.
C3_DtorJoinsWorker ==
    \A t \in Clients : pc[t] = "destroyed" => wpc \in {"none", "exited"}

\* C3 witness: the destructor is in worker.join() while a handler is in
\* flight.
C3_Witness ==
    \E t \in Clients : pc[t] = "d_join" /\ wpc = "handler"


\* C4 (first part): once done is set, no handler invocation begins: timers
\* still queued, due or not, and a periodic timer re-inserted after its
\* in-flight handler returned, are not invoked.
C4_NoInvocationAfterDone ==
    [][done => ~HandlerStarts]_vars

\* C4: once done is set no handler invocation begins, and the worker loop
\* terminates.
C4_ShutdownStopsWorker ==
    /\ [][done => ~HandlerStarts]_vars
    /\ done ~> (wpc = "exited")


\* C5: the invocations are non-decreasing in the target time: the
\* Timer::next of an invocation is never smaller than that of the
\* invocation before it.
C5_InvocationsInTargetOrder ==
    [][lastTarget <= lastTarget']_vars

\* C5 witness: a handler is invoked while a timer created earlier, with a
\* later target time, is still waiting in the queue.
C5_Witness ==
    /\ wpc = "handler"
    /\ cur \in DOMAIN active
    /\ lastTarget = active[cur].next
    /\ \E i \in DOMAIN active :
          i < cur /\ active[i].count = 0 /\ active[i].next > lastTarget

\* C7: a timer with period 0 is invoked at most once, and when its
\* invocation returns with running still set the worker, before it gives
\* up sync, has erased it from active and not put it back into the queue.
C7_OneShotErasedAfterFiring ==
    [][/\ \A i \in DOMAIN active' :
             active'[i].period = 0 => active'[i].count <= 1
       /\ (/\ wpc = "handler" /\ wpc' = "loop"
           /\ cur \in DOMAIN active
           /\ active[cur].running
           /\ active[cur].period = 0)
          => /\ cur \notin DOMAIN active'
             /\ \A k \in 1..Len(queue') : queue'[k] # cur
             /\ lockOwner' = W]_vars

\* C7 witness: the worker holds sync right after the bookkeeping; the
\* single timer, a one-shot nobody cancelled, is gone from active.
C7_Witness ==
    /\ wpc = "loop"
    /\ lockOwner = W
    /\ issued = <<1>>
    /\ active = << >>
    /\ lastTarget = 1
    /\ clearedTrue = {}
    /\ \A t \in Clients : pc[t] = "idle"

\* C8: the target time of invocation number k (from 0) of a periodic
\* timer is first + k * period, where first is the time of the addTimer
\* call plus the delay, whatever the time the handlers took.
C8_FixedPhase ==
    \A i \in DOMAIN active :
        active[i].period > 0 =>
            /\ active[i].next = active[i].first
                   + (IF InFlight(i) THEN active[i].count - 1
                                     ELSE active[i].count) * active[i].period
            /\ InFlight(i) => lastTarget = active[i].next

\* C8 witness: invocation number 1 of a periodic timer is in flight, later
\* than its target time.
C8_Witness ==
    \E i \in DOMAIN active :
        /\ InFlight(i)
        /\ active[i].period > 0
        /\ active[i].count >= 2
        /\ now > active[i].next

\* C9: the ids addTimer assigns are never no_timer and strictly increasing
\* in the order the calls take sync (so pairwise distinct, and an id of a
\* timer that fired or was cancelled is not assigned again); the Registry
\* holds only assigned ids.
C9_IdsIncrease ==
    /\ \A k \in 1..Len(issued) : issued[k] # no_timer
    /\ \A j, k \in 1..Len(issued) : j < k => issued[j] < issued[k]
    /\ \A i \in DOMAIN active : \E k \in 1..Len(issued) : issued[k] = i

\* C9 witness: an id has been assigned after the timer of an earlier id was
\* cancelled, with the two clients inside addTimer at the same time.
C9_Witness ==
    /\ Len(issued) >= 2
    /\ issued[1] \in clearedTrue
    /\ \A t \in Clients : pc[t] = "add_notify"

\* C10: a clearTimer(id) that finds id not in active returns false, and
\* from the call to the return it changes neither active nor the queue,
\* does not block and notifies nobody.
C10_ClearTimerUnknownId ==
    [][\A t \in Clients :
          /\ (/\ pc[t] = "idle"
              /\ pc'[t] \in {"ret_false", "ret_true", "ct_wait", "ct_notify"}
              /\ arg'[t] \notin DOMAIN active)
             => /\ pc'[t] = "ret_false"
                /\ UNCHANGED <<active, queue, wnotified, signalled, lockOwner>>
          /\ (pc[t] = "ret_false" /\ pc'[t] # "ret_false")
             => /\ pc'[t] = "idle"
                /\ UNCHANGED <<active, queue, wnotified, signalled, lockOwner,
                               clearedTrue>>]_vars

\* C10 witness: clearTimer is about to return false for an id that was
\* cancelled before, with another timer registered.
C10_Witness ==
    \E t \in Clients :
        /\ pc[t] = "ret_false"
        /\ arg[t] \in clearedTrue
        /\ active # << >>


\* C6: a timer that is registered and due is eventually invoked, unless it
\* is taken out of the Registry (cancelled, or a one-shot that has fired),
\* the engine is destroyed or the process has aborted.
C6_DueTimerFires ==
    \A i \in Ids :
        (i \in DOMAIN active /\ active[i].next <= now)
            ~> (InFlight(i) \/ i \notin DOMAIN active \/ DtorBegun \/ crashed)


\* clear hands control back to its caller
ClearReturns(t) == pc[t] = "clear_loop" /\ pc'[t] = "idle"

\* C11: when a clear() during which no addTimer ran returns, the Registry
\* is empty, nothing is left in the queue to be invoked and no handler is
\* executing, also when a handler was in flight and other timers were
\* queued at the call.
C11_ClearEmptiesRegistry ==
    [][\A t \in Clients :
          (ClearReturns(t) /\ t \notin addedDuring)
             => /\ active' = << >>
                /\ queue' = << >>
                /\ wpc' # "handler"]_vars

\* C14: the loop of clear() is run by a thread that holds sync: the test
\* active.empty() and the entry of destroy_impl, where the assertion
\* lock.owns_lock() stands, are reached with the lock owned.
C14_ClearLoopOwnsLock ==
    \A t \in Clients : pc[t] = "clear_loop" => OwnsLock(t)


\* C12: the worker does not hold sync while a handler executes, so a call
\* the handler makes into the engine gets the lock: its addTimer registers
\* a timer under a new id while the handler is still in flight, every
\* nested call returns, and the worker then reconciles and is back in its
\* loop.
C12_NestedCallNoDeadlock ==
    /\ [](wpc = "handler" => lockOwner # W)
    /\ [][(pc[H] = "idle" /\ pc'[H] = "add_notify")
             => /\ wpc' = "handler"
                /\ arg'[H] = nextId
                /\ arg'[H] \notin DOMAIN active
                /\ arg'[H] \in DOMAIN active'
                /\ \A k \in 1..Len(issued) : issued[k] < arg'[H]]_vars
    /\ (pc[H] # "idle") ~> (pc[H] = "idle")
    /\ (wpc = "handler") ~> (wpc = "loop")

\* C12 witness: the handler in flight is inside its nested addTimer while
\* a client is blocked cancelling that handler's timer.
C12_Witness ==
    /\ wpc = "handler"
    /\ pc[H] = "add_notify"
    /\ pc["c1"] = "ct_wait"
    /\ arg["c1"] = cur


\* C13: at most one Timer has running set, and a Timer that has it set is
\* the one whose handler the single worker is executing; the worker
\* thread is created once, so two invocations never overlap.
C13_OneHandlerAtATime ==
    /\ [](/\ Cardinality({i \in DOMAIN active : active[i].running}) <= 1
          /\ \A i \in DOMAIN active : active[i].running => InFlight(i))
    /\ [][wpc' = "start" => wpc \in {"none", "start"}]_vars

\* C13 witness: a handler is in flight with running set, a second timer
\* is due in the queue, and both clients are inside the engine.
C13_Witness ==
    /\ wpc = "handler"
    /\ cur \in DOMAIN active
    /\ active[cur].running
    /\ \E i \in DOMAIN active :
          i # cur /\ IsDue(active[i]) /\ ~active[i].running
    /\ \A t \in Clients : pc[t] # "idle"


\* The number of entries of the queue that refer to Timer i
QueueCount(i) == Cardinality({k \in 1..Len(queue) : queue[k] = i})

\* C15: whenever sync is free, a timer is in the queue exactly when it is
\* in the Registry and its handler is not executing: a registered timer
\* that is not mid-callback has exactly one queue entry, one whose handler
\* is executing has none, and the queue holds nothing else.
C15_QueueMatchesRegistry ==
    lockOwner = NoThread =>
        /\ \A i \in DOMAIN active :
              QueueCount(i) = IF InFlight(i) THEN 0 ELSE 1
        /\ \A k \in 1..Len(queue) : queue[k] \in DOMAIN active

\* C16: the Registry entry of the timer whose handler is executing stays
\* in the Registry for as long as that handler executes.
C16_NoEraseDuringCallback ==
    [][(wpc = "handler" /\ wpc' = "handler" /\ cur \in DOMAIN active)
          => cur \in DOMAIN active']_vars

\* C17: a clearTimer(id) that finds the timer registered and not running
\* takes exactly that timer out of the Registry and out of the queue:
\* every other timer keeps its entry in both.
C17_ClearTimerRemovesOnlyThat ==
    [][\A t \in Clients :
          (pc[t] = "idle" /\ pc'[t] = "ct_notify" /\ ~InFlight(arg'[t]))
             => /\ active' = MapErase(active, arg'[t])
                /\ queue' = SelectSeq(queue, LAMBDA j : j # arg'[t])]_vars


\* A notify_all on wakeUp has reached the blocked worker, or a caller that
\* has released sync is about to make one
WakeUpPending ==
    \/ wnotified
    \/ \E t \in Clients :
          \/ pc[t] = "add_notify" /\ ntf[t]
          \/ pc[t] \in {"ct_notify", "clear_notify", "d_notify"}

\* C18: no wake-up is lost.  A worker blocked in the untimed wait while
\* the queue is not empty, or in the timed wait on a deadline later than
\* the earliest target time in the queue, has a notification pending, so
\* it re-evaluates the queue head; otherwise its deadline is not later
\* than the earliest target time.
C18_NoLostWakeUp ==
    /\ (wpc = "idle_wait" /\ queue # << >>) => WakeUpPending
    /\ (wpc = "timed_wait" /\ queue # << >>
            /\ active[Head(queue)].next < deadline) => WakeUpPending

\* C18 witness: the worker is blocked on the deadline of a later timer,
\* an addTimer has put an earlier one in front of it, has released sync
\* and has not called notify_all yet.
C18_Witness ==
    /\ wpc = "timed_wait"
    /\ ~wnotified
    /\ Len(queue) = 2
    /\ active[Head(queue)].next < deadline
    /\ \E t \in Clients : pc[t] = "add_notify" /\ ntf[t] /\ arg[t] = Head(queue)


\* C19: a clearTimer(id) that found id in the Registry returns true, and
\* at the moment it is about to return true id is no longer in the
\* Registry, for any number of threads cancelling the same id while its
\* handler is in flight.
C19_ClearTimerReturnsTrue ==
    /\ [][\A t \in Clients :
             (pc[t] # "ret_true" /\ pc'[t] = "ret_true")
                => arg'[t] \notin DOMAIN active']_vars
    /\ \A t \in Clients :
          (pc[t] \in {"ct_wait", "ct_notify"}) ~> (pc[t] = "ret_true")


\* C20: every entry of the queue refers to a timer that is in the
\* Registry: no operation erases a Registry entry and leaves a queue entry
\* that refers to it.
C20_QueueWithinRegistry ==
    \A k \in 1..Len(queue) : queue[k] \in DOMAIN active

\* C20 witness: a clearTimer has erased its timer and released sync while
\* a periodic timer that has fired and was put back is in the queue.
C20_Witness ==
    \E t \in Clients :
        /\ pc[t] = "ct_notify"
        /\ arg[t] \notin DOMAIN active
        /\ queue # << >>
        /\ active[Head(queue)].count >= 1

====
